---- MODULE Spec2Model ----
(***************************************************************************)
(* A model of the cursor protocols of the mongo_driver crate               *)
(* (src/src/cursor.rs): Cursor, TailingCursor and BatchCursor, together    *)
(* with the Bsonc buffer wrapper (src/src/bsonc.rs) they decode with and   *)
(* the calls they make into the C driver (mongoc).                         *)
(*                                                                         *)
(* The C driver is the environment.  A driver-side cursor handle is a      *)
(* record; what mongoc_cursor_more / _next / _error / _is_alive answer is  *)
(* drawn from the outcomes the driver can produce for that handle.         *)
(*                                                                         *)
(* The second part models the pieces of the crate the cursors rest on:     *)
(* the byte-level codec behind Bsonc, the Document of bson_new.rs, the     *)
(* ClientPool, init() and the Flags sets.                                  *)
(***************************************************************************)
EXTENDS Integers, Sequences, FiniteSets, TLC

\* ------------------------------------------------------------------ bounds
MaxDocs == 2
\* calls of next() one iterator receives
MaxCalls == 3
\* driver errors (network faults, null cursor pointers) the environment injects
MaxFaults == 1
\* times the server ends a tailable cursor without an error
MaxEnds == 1
\* largest value of TailOptions.max_retries that is tried
MaxRetriesOpt == 1
\* fields (and distinct keys) of a document handed to the codec
MaxFields == 2
\* calls of Document::insert on one Document
MaxInserts == 3
\* client pools, threads sharing them, handles a pool makes at most
\* (max_pool_size of the driver), and times one handle is popped
MaxPools == 2
MaxThreads == 2
MaxPoolSize == 2
MaxPops == 2
\* calls of init() one thread makes
MaxInitCalls == 2
\* calls of Flags::add on one Flags
MaxAdds == 3

\* ------------------------------------------------------------------ state
VARIABLES
    coll,       \* the collection: a sequence of BOOLEAN, coll[i] = "document i decodes";
                \* document i carries the i-th ObjectId (monotonically increasing)
    capped,     \* whether the collection is capped (a tailable query on a normal one fails)
    drv,        \* drv[h]: the driver's state of cursor handle h (mongoc_cursor_t)
    destroyed,  \* destroyed[h]: calls of mongoc_cursor_destroy made on handle h
    faults,     \* faults injected so far
    ends,       \* tailable cursors ended by the server so far
    bson_log,   \* bson_destroy calls made by the last operation: a set of
                \* [owner |-> "driver" | "wrapper", n |-> number of calls]
    cur,        \* the plain Cursor under test: [st, inner, tailing]
    c_items,    \* what its next() returned, oldest first
    c_log,      \* the last iteration of the loop of Cursor::next, run by any
                \* Cursor (the plain one or the inner one of an iterator):
                \* tailing, the Cursor's flag; asked, mongoc_cursor_next was
                \* called; success and error, what the driver reported;
                \* alive, is_alive() afterwards; res, how the iteration ended
    tc,         \* the TailingCursor under test
    t_pc,       \* where its next() stands: "idle" (not in a call), "loop", "pull"
    t_items,    \* what its next() returned, oldest first
    t_log,      \* history of its inner pulls: k, the pulls in a row that gave no
                \* Ok item; errs, the pulls of the current call that gave an error; last, the last
                \* pull: its result, its k, whether the result was returned to
                \* the caller, retry_count before it, is_alive() of the handle
                \* after it; slept, the inner next() now running has slept
    bc,         \* the BatchCursor under test: [st, cursor, cursor_id, documents]
    b_items,    \* what its next() returned, oldest first
    b_req,      \* history of its requests for a batch (a pull from the inner
                \* cursor, a getMore): last, those of the last call of next(), each
                \* with the length of the queue when it was made; pulled, what
                \* the pulls of the last call gave; first_gm, the
                \* number of documents returned before the first getMore (-1: none yet)
    b_cmd,      \* the last call of Database::command_batch: the command, the
                \* result, whether mongoc_database_command was called; refused,
                \* whether a call was refused for its command
    srv,        \* the server's side of the batched command: id, the open
                \* server cursor (0: none); sent, the documents handed out in
                \* batches; sizes, the sizes of these batches; odd, the replies
                \* that were no well-formed batch
    bs,         \* a bson::Document and the Bsonc buffer made from it:
                \* [st, doc, bsonc, strict, lossy]
    dm,         \* a Document of bson_new.rs under test
    pool,       \* a ClientPool shared by threads
    once,       \* the Once latch of init() and the threads calling it
    fl          \* a Flags set under test

envVars == <<coll, capped, drv, destroyed, faults, ends, bson_log>>
cursorVars == <<cur, c_items, c_log>>
tailVars == <<tc, t_pc, t_items, t_log>>
batchVars == <<bc, b_items, b_req, b_cmd, srv>>
libVars == <<bs, dm, pool, once, fl>>
vars == <<envVars, cursorVars, tailVars, batchVars, libVars>>

\* ------------------------------------------------------------- results
Last(s) == s[Len(s)]

\* Option<T>
NoneOpt == [some |-> FALSE]
SomeOpt(v) == [some |-> TRUE, val |-> v]

None == [tag |-> "None"]
SomeOk(d) == [tag |-> "Ok", doc |-> d]
SomeErr(k) == [tag |-> "Err", kind |-> k]
\* Result<Cursor>
Ok(v) == [tag |-> "Ok", val |-> v]
Err(k) == [tag |-> "Err", kind |-> k]

\* ------------------------------------------------------------- bsonc.rs
\* Bsonc::from_ptr: wraps a pointer; the struct has the one field `inner`
\* and records nothing about who owns the memory.
from_ptr(p) == [inner |-> p]

\* Bsonc::from_document: encodes and lets the driver allocate a new buffer.
from_document(d) == [inner |-> [owner |-> "wrapper", data |-> d]]

\* impl Drop for Bsonc: bson_destroy(self.inner), whatever the origin.
Bsonc_drop(b) == {[owner |-> b.inner.owner, n |-> 1]}

\* Bsonc::as_document: decoding fails on a malformed document.
as_document(b) ==
    IF b.inner.data.valid THEN Ok(b.inner.data.doc) ELSE Err("decode")

\* ------------------------------------------------------------- the driver
\* a raw document the driver owns and hands out by pointer
RawDoc(d, v) == [owner |-> "driver", data |-> [doc |-> d, valid |-> v]]

\* mongoc_collection_find: a new handle for a query with the filter
\* _id > gt (gt = 0: no filter).  A query that is not tailable reads the
\* result set as it is now.
NewQueryHandle(tailable, gt) ==
    [kind |-> "query", tailable |-> tailable, pos |-> gt,
     limit |-> Len(coll), more |-> TRUE, alive |-> TRUE, reply |-> <<>>]

\* the reply of a command the server rejected
ErrorReply == [owner |-> "none", data |-> [doc |-> 0, valid |-> FALSE]]

\* mongoc_database_command: a new handle; the reply comes with the first
\* mongoc_cursor_next
NewCommandHandle(reply) ==
    [kind |-> "command", tailable |-> FALSE, pos |-> 0, limit |-> 0,
     more |-> TRUE, alive |-> TRUE, reply |-> <<reply>>]

\* mongoc_cursor_destroy: the driver frees the handle's state
Freed == [kind |-> "freed", tailable |-> FALSE, pos |-> 0, limit |-> 0,
          more |-> FALSE, alive |-> FALSE, reply |-> <<>>]

Dead(h) == [h EXCEPT !.more = FALSE, !.alive = FALSE]

Avail(h) == IF h.tailable THEN Len(coll) ELSE h.limit

\* mongoc_cursor_more
more(h) == h.more

\* mongoc_cursor_is_alive
is_alive(h) == h.alive

\* mongoc_cursor_next followed by mongoc_cursor_error: the outcomes the
\* driver can produce for handle h.  fault/ended say which budget of the
\* environment the outcome uses.
cursor_next(h) ==
    LET out(s, p, e, h2, f, n) ==
            [success |-> s, bson_ptr |-> p, error |-> e, h |-> h2,
             fault |-> f, ended |-> n]
        nil == [owner |-> "driver", data |-> [doc |-> 0, valid |-> FALSE]]
    IN  \* a driver error (connection lost, ...)
        {out(0, nil, TRUE, Dead(h), 1, 0)}
        \cup
        (IF h.kind = "query" /\ h.tailable /\ ~capped
            THEN \* tailing a collection that is not capped: the query fails
                 {out(0, nil, TRUE, Dead(h), 0, 0)}
         ELSE IF h.kind = "query" /\ h.pos < Avail(h)
            THEN {out(1, RawDoc(h.pos + 1, coll[h.pos + 1]), FALSE,
                      [h EXCEPT !.pos = h.pos + 1], 0, 0)}
         ELSE IF h.kind = "query" /\ h.tailable
            THEN \* no data yet: the cursor stays open, or the server ends it
                 {out(0, nil, FALSE, h, 0, 0),
                  out(0, nil, FALSE, Dead(h), 0, 1),
                  out(0, nil, FALSE, [h EXCEPT !.alive = FALSE], 0, 1)}
         ELSE IF h.kind = "command" /\ h.reply # <<>>
            THEN IF h.reply[1] = ErrorReply
                 THEN \* the command failed on the server
                      {out(0, nil, TRUE, Dead(h), 0, 0)}
                 ELSE {out(1, h.reply[1], FALSE, [h EXCEPT !.reply = <<>>], 0, 0)}
         ELSE {out(0, nil, FALSE, Dead(h), 0, 0)})

\* ------------------------------------------------------------- Cursor
\* an outcome of one iteration of the loop of Cursor::next: res is what
\* next() returns, or Sleep (thread::sleep, then the loop continues); h the
\* handle afterwards; bson the bson_destroy calls made
Outcome(r, o, b) ==
    [res |-> r, h |-> o.h, bson |-> b, fault |-> o.fault, ended |-> o.ended,
     asked |-> TRUE, success |-> o.success, error |-> o.error]

Sleep == [tag |-> "Sleep"]

\* Cursor_next_failed looking at tailing and is_alive() only, not at the
\* error
Cursor_next_failed_noerror(tailing, o) ==
    IF tailing /\ is_alive(o.h)
    THEN Outcome(Sleep, o, {})
    ELSE Outcome(None, o, {})

\* Cursor_next_failed sleeping whenever the cursor is alive, tailing or not
Cursor_next_failed_sleep_any(tailing, o) ==
    IF ~o.error
    THEN IF is_alive(o.h)
         THEN Outcome(Sleep, o, {})
         ELSE Outcome(None, o, {})
    ELSE Outcome(SomeErr("driver"), o, {})

\* Cursor_next_failed without the wait of a tailing cursor
Cursor_next_failed_nowait(tailing, o) ==
    IF ~o.error
    THEN Outcome(None, o, {})
    ELSE Outcome(SomeErr("driver"), o, {})

\* Cursor::next, success == 0: no document
Cursor_next_failed(tailing, o) ==
    IF ~o.error
    THEN IF tailing /\ is_alive(o.h)
         THEN Outcome(Sleep, o, {})
         ELSE Outcome(None, o, {})
    ELSE Outcome(SomeErr("driver"), o, {})

\* Cursor_next_decode with a decoding failure that finishes the driver's
\* cursor
Cursor_next_decode_fused(o) ==
    LET bsonc == from_ptr(o.bson_ptr)
        d == as_document(bsonc)
    IN  IF d.tag = "Ok"
        THEN Outcome(SomeOk(d.val), o, Bsonc_drop(bsonc))
        ELSE Outcome(SomeErr(d.kind), [o EXCEPT !.h = Dead(o.h)],
                     Bsonc_drop(bsonc))

\* Cursor_next_decode with a decoding failure ending the iteration
Cursor_next_decode_none(o) ==
    LET bsonc == from_ptr(o.bson_ptr)
        d == as_document(bsonc)
    IN  Outcome(IF d.tag = "Ok" THEN SomeOk(d.val) ELSE None,
                o, Bsonc_drop(bsonc))

\* Cursor::next, success != 0: wrap the driver's document, decode it, and
\* drop the wrapper when the function returns
Cursor_next_decode(o) ==
    LET bsonc == from_ptr(o.bson_ptr)
        d == as_document(bsonc)
    IN  Outcome(IF d.tag = "Ok" THEN SomeOk(d.val) ELSE SomeErr(d.kind),
                o, Bsonc_drop(bsonc))

\* impl Iterator for Cursor: the outcomes of one iteration of the loop of
\* next() on handle h
Cursor_next(tailing, h) ==
    IF ~more(h)
    THEN {[res |-> None, h |-> h, bson |-> {}, fault |-> 0, ended |-> 0,
           asked |-> FALSE, success |-> 0, error |-> FALSE]}
    ELSE { IF o.success = 0 THEN Cursor_next_failed(tailing, o)
                            ELSE Cursor_next_decode(o)
           : o \in cursor_next(h) }

\* Cursor_drop without the call of mongoc_cursor_destroy
Cursor_drop_leak(d, h) == d

\* impl Drop for Cursor: mongoc_cursor_destroy(self.inner)
Cursor_drop(d, h) == [d EXCEPT ![h] = d[h] + 1]

\* no iteration of the loop of Cursor::next has run
NoIteration ==
    [tailing |-> FALSE, asked |-> FALSE, success |-> 0, error |-> FALSE,
     alive |-> FALSE, res |-> [tag |-> "none"]]

\* what c_log keeps of an iteration with outcome o
Iteration(tailing, o) ==
    [tailing |-> tailing, asked |-> o.asked, success |-> o.success,
     error |-> o.error, alive |-> is_alive(o.h), res |-> o.res]

\* the program under test opens one iterator
NothingOpen == cur.st = "none" /\ tc.st = "none" /\ bc.st = "none"

\* what an outcome may use of the environment's budgets
Within(o) == faults + o.fault <= MaxFaults /\ ends + o.ended <= MaxEnds

\* Collection::find: the query is encoded into a buffer of the wrapper's own
\* (dropped when the call returns); a null cursor pointer is an error.
CollectionFind(tailable) ==
    /\ NothingOpen
    /\ bson_log' = Bsonc_drop(from_document([doc |-> 0, valid |-> TRUE]))
    /\ \/ /\ drv' = Append(drv, NewQueryHandle(tailable, 0))
          /\ destroyed' = Append(destroyed, 0)
          /\ cur' = [st |-> "open", inner |-> Len(drv) + 1, tailing |-> FALSE]
          /\ UNCHANGED faults
       \/ /\ faults < MaxFaults
          /\ faults' = faults + 1
          /\ UNCHANGED <<drv, destroyed, cur>>
    /\ UNCHANGED <<coll, capped, ends, c_items, c_log, tailVars, batchVars>>
    /\ UNCHANGED libVars

\* a call of Cursor::next by the owner of the cursor
CursorNext ==
    /\ cur.st = "open"
    /\ Len(c_items) < MaxCalls
    /\ \E o \in Cursor_next(cur.tailing, drv[cur.inner]) :
          /\ Within(o)
          /\ drv' = [drv EXCEPT ![cur.inner] = o.h]
          /\ faults' = faults + o.fault
          /\ ends' = ends + o.ended
          /\ bson_log' = o.bson
          /\ c_log' = Iteration(cur.tailing, o)
          /\ c_items' = IF o.res.tag = "Sleep" THEN c_items
                                               ELSE Append(c_items, o.res)
    /\ UNCHANGED <<coll, capped, destroyed, cur, tailVars, batchVars>>
    /\ UNCHANGED libVars

\* the owner drops the cursor
CursorDrop ==
    /\ cur.st = "open"
    /\ destroyed' = Cursor_drop(destroyed, cur.inner)
    /\ drv' = [drv EXCEPT ![cur.inner] = Freed]
    /\ cur' = [cur EXCEPT !.st = "dropped"]
    /\ bson_log' = {}
    /\ UNCHANGED <<coll, capped, faults, ends, c_items, c_log, tailVars,
                   batchVars>>
    /\ UNCHANGED libVars

\* another client inserts a document; v: whether it decodes
Insert(v) ==
    /\ Len(coll) < MaxDocs
    /\ coll' = Append(coll, v)
    /\ UNCHANGED <<capped, drv, destroyed, faults, ends, bson_log>>
    /\ UNCHANGED <<cursorVars, tailVars, batchVars>>
    /\ UNCHANGED libVars

\* ------------------------------------------------------------- TailingCursor
NoTailingCursor ==
    [st |-> "none", cursor |-> 0, last_seen_id |-> 0, retry_count |-> 0,
     max_retries |-> 0, query_gt |-> 0]

NoPull == [res |-> "none", k |-> 0, returned |-> FALSE, retry_before |-> 0,
           alive |-> FALSE]

\* TailingCursor::new (through Collection::tail): no cursor, no last seen
\* id, retry_count 0; in the struct's query the filter on _id is absent
TailingCursor_new(R) ==
    [st |-> "open", cursor |-> 0, last_seen_id |-> 0, retry_count |-> 0,
     max_retries |-> R, query_gt |-> 0]

\* TailingCursor::next, no cursor: last_seen_id.take() and, when there was
\* an id, the filter _id > id is put into the query
TailingCursor_query(t) ==
    [t EXCEPT !.last_seen_id = 0,
              !.query_gt = IF t.last_seen_id # 0 THEN t.last_seen_id ELSE @]

\* TailingCursor_match comparing with > instead of >=
TailingCursor_match_gt(t, res) ==
    IF res.tag = "Ok"
    THEN [t |-> [t EXCEPT !.retry_count = 0], returned |-> TRUE]
    ELSE IF res.tag = "Err" /\ t.retry_count > t.max_retries
    THEN [t |-> t, returned |-> TRUE]
    ELSE [t |-> [t EXCEPT !.retry_count = t.retry_count + 1, !.cursor = 0],
          returned |-> FALSE]

\* TailingCursor_match passing the None of the inner cursor to the caller
TailingCursor_match_none(t, res) ==
    IF res.tag \in {"Ok", "None"}
    THEN [t |-> [t EXCEPT !.retry_count = 0], returned |-> TRUE]
    ELSE IF res.tag = "Err" /\ t.retry_count >= t.max_retries
    THEN [t |-> t, returned |-> TRUE]
    ELSE [t |-> [t EXCEPT !.retry_count = t.retry_count + 1, !.cursor = 0],
          returned |-> FALSE]

\* TailingCursor_match leaving retry_count as it is on an Ok item
TailingCursor_match_noreset(t, res) ==
    IF res.tag = "Ok"
    THEN [t |-> t, returned |-> TRUE]
    ELSE IF res.tag = "Err" /\ t.retry_count >= t.max_retries
    THEN [t |-> t, returned |-> TRUE]
    ELSE [t |-> [t EXCEPT !.retry_count = t.retry_count + 1, !.cursor = 0],
          returned |-> FALSE]

\* TailingCursor_match without the check of retry_count: always retries
TailingCursor_match_forever(t, res) ==
    IF res.tag = "Ok"
    THEN [t |-> [t EXCEPT !.retry_count = 0], returned |-> TRUE]
    ELSE [t |-> [t EXCEPT !.retry_count = t.retry_count + 1, !.cursor = 0],
          returned |-> FALSE]

\* TailingCursor::next, the match on cursor.next() and the end of the loop
\* body: the TailingCursor afterwards and whether next() returns the result
TailingCursor_match(t, res) ==
    IF res.tag = "Ok"
    THEN [t |-> [t EXCEPT !.retry_count = 0], returned |-> TRUE]
    ELSE IF res.tag = "Err" /\ t.retry_count >= t.max_retries
    THEN [t |-> t, returned |-> TRUE]
    ELSE [t |-> [t EXCEPT !.retry_count = t.retry_count + 1, !.cursor = 0],
          returned |-> FALSE]

\* Collection::tail
CollectionTail(R) ==
    /\ NothingOpen
    /\ tc' = TailingCursor_new(R)
    /\ UNCHANGED <<envVars, cursorVars, t_pc, t_items, t_log, batchVars>>
    /\ UNCHANGED libVars

\* TailingCursor::next up to the call of cursor.next(): entered by a call
\* (t_pc = "idle") or from the end of the loop body (t_pc = "loop") with no
\* cursor; opens one with Collection::find
TailingFind ==
    /\ tc.st = "open" /\ tc.cursor = 0
    /\ t_pc \in {"idle", "loop"}
    /\ t_pc = "idle" => Len(t_items) < MaxCalls
    /\ bson_log' = Bsonc_drop(from_document([doc |-> 0, valid |-> TRUE]))
    /\ LET t == TailingCursor_query(tc)
       IN  \/ /\ drv' = Append(drv, NewQueryHandle(TRUE, t.query_gt))
              /\ destroyed' = Append(destroyed, 0)
              /\ tc' = [t EXCEPT !.cursor = Len(drv) + 1]
              /\ t_pc' = "pull"
              /\ UNCHANGED <<faults, t_items>>
           \/ /\ faults < MaxFaults
              /\ faults' = faults + 1
              /\ tc' = t
              /\ t_pc' = "idle"
              /\ t_items' = Append(t_items, SomeErr("params"))
              /\ UNCHANGED <<drv, destroyed>>
    /\ t_log' = IF t_pc = "idle" THEN [t_log EXCEPT !.errs = 0] ELSE t_log
    /\ UNCHANGED <<coll, capped, ends, cursorVars, batchVars>>
    /\ UNCHANGED libVars

\* TailingCursor::next from cursor.next() on: one iteration of the inner
\* cursor's loop (it may sleep and go round again) and, when the inner
\* cursor returns, the match on its result
TailingPull ==
    /\ tc.st = "open" /\ tc.cursor # 0
    /\ t_pc \in {"idle", "pull"}
    /\ t_pc = "idle" => Len(t_items) < MaxCalls
    /\ \E o \in Cursor_next(TRUE, drv[tc.cursor]) :
          /\ Within(o)
          /\ faults' = faults + o.fault
          /\ ends' = ends + o.ended
          /\ bson_log' = o.bson
          /\ c_log' = Iteration(TRUE, o)
          /\ IF o.res.tag = "Sleep"
             THEN /\ t_pc' = "pull"
                  /\ drv' = [drv EXCEPT ![tc.cursor] = o.h]
                  /\ t_log' = [t_log EXCEPT
                                   !.errs = IF t_pc = "idle" THEN 0 ELSE @,
                                   !.slept = TRUE]
                  /\ UNCHANGED <<tc, t_items, destroyed>>
             ELSE LET m == TailingCursor_match(tc, o.res)
                      k == IF o.res.tag = "Ok" THEN 0 ELSE t_log.k + 1
                  IN  /\ tc' = m.t
                      /\ destroyed' = IF m.t.cursor = 0
                                      THEN Cursor_drop(destroyed, tc.cursor)
                                      ELSE destroyed
                      /\ drv' = [drv EXCEPT ![tc.cursor] =
                                    IF m.t.cursor = 0 THEN Freed ELSE o.h]
                      /\ t_pc' = IF m.returned THEN "idle" ELSE "loop"
                      /\ t_items' = IF m.returned THEN Append(t_items, o.res)
                                                  ELSE t_items
                      /\ t_log' = [k |-> k, slept |-> FALSE,
                                   errs |-> (IF t_pc = "idle" THEN 0
                                             ELSE t_log.errs)
                                            + (IF o.res.tag = "Err" THEN 1
                                               ELSE 0),
                                   last |-> [res |-> o.res.tag, k |-> k,
                                             returned |-> m.returned,
                                             retry_before |-> tc.retry_count,
                                             alive |-> is_alive(o.h)]]
    /\ UNCHANGED <<coll, capped, cur, c_items, batchVars>>
    /\ UNCHANGED libVars

\* the owner drops the TailingCursor between two calls; its Option<Cursor>
\* is dropped with it
TailingDrop ==
    /\ tc.st = "open" /\ t_pc = "idle"
    /\ destroyed' = IF tc.cursor # 0 THEN Cursor_drop(destroyed, tc.cursor)
                                     ELSE destroyed
    /\ drv' = IF tc.cursor # 0 THEN [drv EXCEPT ![tc.cursor] = Freed] ELSE drv
    /\ tc' = [tc EXCEPT !.st = "dropped"]
    /\ bson_log' = {}
    /\ UNCHANGED <<coll, capped, faults, ends, t_pc, t_items, t_log,
                   cursorVars, batchVars>>
    /\ UNCHANGED libVars

\* ------------------------------------------------------------- the server
\* the documents first..last of the collection, as a batch
Batch(first, last) == [i \in 1..(last - first + 1) |-> first + i - 1]

\* a reply envelope {cursor: {id, firstBatch | nextBatch}}; well_formed:
\* whether it deserializes as a CommandSimpleResult
Envelope(wf, id, first_batch, next_batch) ==
    [well_formed |-> wf, id |-> id, first_batch |-> first_batch,
     next_batch |-> next_batch]

\* as a document of the driver's: it decodes when its documents do
RawBatch(env, first, last) ==
    RawDoc(env, \A i \in first..last : coll[i])

\* the ids the server may report after handing out the documents up to n:
\* the open cursor, or 0 when none is left
IdsAfter(n) == IF n = Len(coll) THEN {0, 1} ELSE {1}

\* replies that are no well-formed batch: one that does not deserialize, one
\* with a cursor id and neither firstBatch nor nextBatch
OddReplies ==
    IF srv.odd < MaxFaults
    THEN { [reply |-> RawDoc(e, TRUE), srv |-> [srv EXCEPT !.odd = @ + 1]]
           : e \in {Envelope(FALSE, 0, NoneOpt, NoneOpt),
                    Envelope(TRUE, 1, NoneOpt, NoneOpt)} }
    ELSE {}

\* the replies the server may give to the command: a first batch of any
\* size, or an odd reply
FindReplies ==
    LET good == { [reply |-> RawBatch(Envelope(TRUE, id, SomeOpt(Batch(1, n)),
                                               NoneOpt), 1, n),
                   srv |-> [srv EXCEPT !.id = id, !.sent = n, !.sizes = <<n>>]]
                  : n \in 0..Len(coll), id \in {0, 1} }
    IN  { r \in good : r.srv.id \in IdsAfter(r.srv.sent) } \cup OddReplies

\* the replies the server may give to getMore for cursor cid
GetMoreReplies(cid) ==
    IF cid = 0 \/ cid # srv.id
    THEN {[reply |-> ErrorReply, srv |-> srv]}
    ELSE LET good == { [reply |-> RawBatch(Envelope(TRUE, id, NoneOpt,
                                     SomeOpt(Batch(srv.sent + 1, n))),
                                     srv.sent + 1, n),
                        srv |-> [srv EXCEPT !.id = id, !.sent = n,
                                    !.sizes = Append(@, n - srv.sent)]]
                       : n \in srv.sent..Len(coll), id \in {0, 1} }
         IN  { r \in good : r.srv.id \in IdsAfter(r.srv.sent) } \cup OddReplies

\* ------------------------------------------------------------- BatchCursor
NoBatchCursor ==
    [st |-> "none", cursor |-> 0, coll_name |-> "", cursor_id |-> NoneOpt,
     documents |-> NoneOpt]

\* BatchCursor::new
BatchCursor_new(cursor, coll_name) ==
    [st |-> "open", cursor |-> cursor, coll_name |-> coll_name,
     cursor_id |-> NoneOpt, documents |-> NoneOpt]

\* no call of command_batch made yet
NoCommand == [doc |-> <<>>, res |-> "none", sent |-> FALSE, refused |-> FALSE]

\* a field of a command and its values: a string, or something else
CmdField(k, v) == [key |-> k, val |-> v]
CmdStr(s) == [t |-> "Str", s |-> s]
CmdInt == [t |-> "I32", s |-> ""]

\* the commands handed to command_batch
Commands ==
    { <<CmdField("find", CmdStr("a"))>>,
      <<CmdField("aggregate", CmdStr("b")), CmdField("find", CmdStr("a"))>>,
      <<CmdField("find", CmdInt), CmdField("listIndexes", CmdStr("b"))>>,
      <<CmdField("error", CmdStr("a"))>>,
      <<CmdField("aggregate", CmdInt)>> }

\* bson::Document::get_str: the value of the key when it is there and is a
\* string
get_str(doc, key) ==
    IF \E i \in 1..Len(doc) : doc[i].key = key /\ doc[i].val.t = "Str"
    THEN Ok((CHOOSE f \in {doc[i] : i \in 1..Len(doc)} : f.key = key).val.s)
    ELSE Err("value_access")

VALID_COMMANDS == <<"find", "aggregate", "listIndexes">>

\* get_coll_name_from_doc with an empty name for a command without a key
get_coll_name_from_doc_default(doc) ==
    LET RECURSIVE loop(_)
        loop(i) ==
            IF i > Len(VALID_COMMANDS) THEN Ok("")
            ELSE IF get_str(doc, VALID_COMMANDS[i]).tag = "Ok"
                 THEN get_str(doc, VALID_COMMANDS[i])
            ELSE loop(i + 1)
    IN  loop(1)

\* get_coll_name_from_doc: the first of VALID_COMMANDS that get_str finds
get_coll_name_from_doc(doc) ==
    LET RECURSIVE loop(_)
        loop(i) ==
            IF i > Len(VALID_COMMANDS) THEN Err("InvalidParamsError")
            ELSE IF get_str(doc, VALID_COMMANDS[i]).tag = "Ok"
                 THEN get_str(doc, VALID_COMMANDS[i])
            ELSE loop(i + 1)
    IN  loop(1)

\* the documents in the local queue
Queued(b) == IF b.documents.some THEN Len(b.documents.val) ELSE 0

\* get_next_doc leaving the last document in the queue (len() > 1)
get_next_doc_keep_one(b) ==
    IF b.documents.some /\ Len(b.documents.val) > 1
    THEN [res |-> SomeOk(Head(b.documents.val)),
          b |-> [b EXCEPT !.documents = SomeOpt(Tail(b.documents.val))]]
    ELSE [res |-> None, b |-> b]

\* get_next_doc with pop_back instead of pop_front
get_next_doc_back(b) ==
    IF b.documents.some /\ Len(b.documents.val) > 0
    THEN [res |-> SomeOk(Last(b.documents.val)),
          b |-> [b EXCEPT !.documents =
                    SomeOpt(SubSeq(b.documents.val, 1, Len(b.documents.val) - 1))]]
    ELSE [res |-> None, b |-> b]

\* BatchCursor::get_next_doc: [res, b], the result and the cursor afterwards
get_next_doc(b) ==
    IF b.documents.some /\ Len(b.documents.val) > 0
    THEN [res |-> SomeOk(Head(b.documents.val)),
          b |-> [b EXCEPT !.documents = SomeOpt(Tail(b.documents.val))]]
    ELSE [res |-> None, b |-> b]

\* batch_to_array
batch_to_array(doc) ==
    IF ~doc.well_formed THEN Err("value_access")
    ELSE IF doc.first_batch.some
         THEN Ok([docs |-> doc.first_batch, id |-> SomeOpt(doc.id)])
    ELSE IF doc.next_batch.some
         THEN Ok([docs |-> doc.next_batch, id |-> SomeOpt(doc.id)])
    ELSE Ok([docs |-> NoneOpt, id |-> NoneOpt])

\* get_cursor_next going on after an envelope that does not parse
get_cursor_next_skip(b, item) ==
    IF item.tag = "Ok"
    THEN LET docs_ret == batch_to_array(item.doc)
         IN  IF docs_ret.tag = "Ok"
             THEN get_next_doc(
                      [b EXCEPT !.documents = docs_ret.val.docs,
                                !.cursor_id = IF docs_ret.val.id.some
                                              THEN docs_ret.val.id ELSE @])
             ELSE [res |-> None, b |-> b]
    ELSE [res |-> None, b |-> b]

\* get_cursor_next passing on an Err item of the inner cursor
get_cursor_next_pass(b, item) ==
    IF item.tag = "Ok"
    THEN LET docs_ret == batch_to_array(item.doc)
         IN  IF docs_ret.tag = "Ok"
             THEN get_next_doc(
                      [b EXCEPT !.documents = docs_ret.val.docs,
                                !.cursor_id = IF docs_ret.val.id.some
                                              THEN docs_ret.val.id ELSE @])
             ELSE [res |-> SomeErr(docs_ret.kind), b |-> b]
    ELSE [res |-> item, b |-> b]

\* get_cursor_next with an error for a batch that is empty
get_cursor_next_empty(b, item) ==
    IF item.tag = "Ok"
    THEN LET docs_ret == batch_to_array(item.doc)
         IN  IF docs_ret.tag = "Ok"
             THEN LET r == get_next_doc(
                      [b EXCEPT !.documents = docs_ret.val.docs,
                                !.cursor_id = IF docs_ret.val.id.some
                                              THEN docs_ret.val.id ELSE @])
                  IN  IF r.res = None
                      THEN [res |-> SomeErr("value_access"), b |-> r.b]
                      ELSE r
             ELSE [res |-> SomeErr(docs_ret.kind), b |-> b]
    ELSE [res |-> None, b |-> b]

\* BatchCursor::get_cursor_next, given what self.cursor.next() returned
get_cursor_next(b, item) ==
    IF item.tag = "Ok"
    THEN LET docs_ret == batch_to_array(item.doc)
         IN  IF docs_ret.tag = "Ok"
             THEN get_next_doc(
                      [b EXCEPT !.documents = docs_ret.val.docs,
                                !.cursor_id = IF docs_ret.val.id.some
                                              THEN docs_ret.val.id ELSE @])
             ELSE [res |-> SomeErr(docs_ret.kind), b |-> b]
    ELSE [res |-> None, b |-> b]

\* the number of Ok documents in a sequence of results
RECURSIVE OkCount(_)
OkCount(items) ==
    IF items = <<>> THEN 0
    ELSE (IF Head(items).tag = "Ok" THEN 1 ELSE 0) + OkCount(Tail(items))

\* Database::command_batch: get_coll_name_from_doc, then Database::command
\* opens the inner cursor (a null cursor pointer is an error) and
\* BatchCursor::new wraps it
CommandBatch ==
    /\ NothingOpen
    /\ \E command \in Commands :
          LET coll_name == get_coll_name_from_doc(command)
          IN  IF coll_name.tag = "Err"
              THEN /\ b_cmd' = [doc |-> command, res |-> coll_name.kind,
                                sent |-> FALSE, refused |-> TRUE]
                   /\ bson_log' = {}
                   /\ UNCHANGED <<drv, destroyed, srv, bc, faults>>
              ELSE /\ bson_log' = Bsonc_drop(from_document([doc |-> 0, valid |-> TRUE]))
                   /\ \/ \E r \in FindReplies :
                            /\ drv' = Append(drv, NewCommandHandle(r.reply))
                            /\ destroyed' = Append(destroyed, 0)
                            /\ srv' = r.srv
                            /\ bc' = BatchCursor_new(Len(drv) + 1, coll_name.val)
                            /\ b_cmd' = [doc |-> command, res |-> "Ok", sent |-> TRUE,
                                         refused |-> b_cmd.refused]
                            /\ UNCHANGED faults
                      \/ /\ faults < MaxFaults
                         /\ faults' = faults + 1
                         /\ b_cmd' = [doc |-> command, res |-> "InvalidParamsError",
                                      sent |-> TRUE, refused |-> b_cmd.refused]
                         /\ UNCHANGED <<drv, destroyed, srv, bc>>
    /\ UNCHANGED <<coll, capped, ends, b_items, b_req, cursorVars, tailVars>>
    /\ UNCHANGED libVars

\* the end of a call of BatchCursor::next
BatchReturn(r, reqs, pulled) ==
    /\ bc' = r.b
    /\ b_items' = Append(b_items, r.res)
    /\ b_req' = [last |-> reqs,
                 pulled |-> pulled,
                 first_gm |-> IF b_req.first_gm = -1
                                 /\ \E i \in 1..Len(reqs) : reqs[i].kind = "getMore"
                              THEN OkCount(b_items) ELSE b_req.first_gm]

\* a request next() makes: a pull on the inner cursor or a getMore command,
\* with the queue and the cursor id on file when it is made
Request(k, b) == [kind |-> k, queued |-> Queued(b), id |-> b.cursor_id]

\* impl Iterator for BatchCursor: a call of next()
BatchNext ==
    /\ bc.st = "open"
    /\ Len(b_items) < MaxCalls
    /\ LET r1 == get_next_doc(bc)
       IN  IF r1.res # None
           THEN \* (1) the local document buffer
                /\ BatchReturn(r1, <<>>, <<>>)
                /\ bson_log' = {}
                /\ UNCHANGED <<drv, destroyed, faults, srv, c_log>>
           ELSE \* (2) next() of the inner cursor
                \E o1 \in Cursor_next(FALSE, drv[bc.cursor]) :
                   LET r2 == get_cursor_next(r1.b, o1.res)
                       q2 == <<Request("pull", r1.b)>>
                       d2 == [drv EXCEPT ![bc.cursor] = o1.h]
                   IN  /\ faults + o1.fault <= MaxFaults
                       /\ IF r2.res # None \/ ~r2.b.cursor_id.some
                          THEN /\ BatchReturn(r2, q2, <<o1.res>>)
                               /\ drv' = d2
                               /\ faults' = faults + o1.fault
                               /\ bson_log' = o1.bson
                               /\ c_log' = Iteration(FALSE, o1)
                               /\ UNCHANGED <<destroyed, srv>>
                          ELSE \* (3) getMore
                               LET q3 == Append(q2, Request("getMore", r2.b))
                                   cmd == Bsonc_drop(from_document(
                                              [doc |-> 0, valid |-> TRUE]))
                               IN
                               \/ \E g \in GetMoreReplies(r2.b.cursor_id.val) :
                                  \E o2 \in Cursor_next(FALSE, NewCommandHandle(g.reply)) :
                                     LET b3 == [r2.b EXCEPT !.cursor = Len(drv) + 1]
                                         r3 == get_cursor_next(b3, o2.res)
                                     IN  /\ faults + o1.fault + o2.fault <= MaxFaults
                                         /\ BatchReturn(r3, Append(q3, Request("pull", b3)),
                                                        <<o1.res, o2.res>>)
                                         /\ drv' = Append([d2 EXCEPT ![bc.cursor] = Freed],
                                                          o2.h)
                                         /\ destroyed' =
                                               Append(Cursor_drop(destroyed, bc.cursor), 0)
                                         /\ srv' = g.srv
                                         /\ faults' = faults + o1.fault + o2.fault
                                         /\ bson_log' = o1.bson \cup cmd \cup o2.bson
                                         /\ c_log' = Iteration(FALSE, o2)
                               \/ \* the command gave no cursor
                                  /\ faults + o1.fault < MaxFaults
                                  /\ BatchReturn([res |-> None, b |-> r2.b], q3, <<o1.res>>)
                                  /\ drv' = d2
                                  /\ faults' = faults + o1.fault + 1
                                  /\ bson_log' = o1.bson \cup cmd
                                  /\ c_log' = Iteration(FALSE, o1)
                                  /\ UNCHANGED <<destroyed, srv>>
    /\ UNCHANGED <<coll, capped, ends, b_cmd, cur, c_items, tailVars>>
    /\ UNCHANGED libVars

\* the owner drops the BatchCursor; its Cursor is dropped with it
BatchDrop ==
    /\ bc.st = "open"
    /\ destroyed' = Cursor_drop(destroyed, bc.cursor)
    /\ drv' = [drv EXCEPT ![bc.cursor] = Freed]
    /\ bc' = [bc EXCEPT !.st = "dropped"]
    /\ bson_log' = {}
    /\ UNCHANGED <<coll, capped, faults, ends, b_items, b_req, b_cmd, srv,
                   cursorVars, tailVars>>
    /\ UNCHANGED libVars

\* the parts of the crate that are not in use
NoBson == [st |-> "none"]
NoDocument == [st |-> "none"]
NoPool == [st |-> "none"]
NoOnce == [st |-> "none"]
NoFlags == [st |-> "none"]

\* ------------------------------------------------------------- the codec
\* A bson::Document is a sequence of fields [key, val] with distinct keys; a
\* key and a String are sequences of bytes (a Rust String built with
\* from_utf8_unchecked can hold any bytes); a value is [t, v] with t one of
\* "I32", "I64", "Date" (milliseconds since the epoch) with the number in
\* field n, "Str" with the bytes in field s, "Doc" with the document in
\* field d.
Field(k, v) == [key |-> k, val |-> v]
I32(n) == [t |-> "I32", n |-> n]
I64(n) == [t |-> "I64", n |-> n]
Date(n) == [t |-> "Date", n |-> n]
Str(s) == [t |-> "Str", s |-> s]
Doc(d) == [t |-> "Doc", d |-> d]

\* a 32-bit integer as 4 bytes, little-endian, two's complement
LE32(n) ==
    LET u == IF n >= 0 THEN n ELSE (n + 2147483647) + 1
        top == (u \div 16777216) + (IF n >= 0 THEN 0 ELSE 128)
    IN  <<u % 256, (u \div 256) % 256, (u \div 65536) % 256, top>>

FromLE32(b) ==
    LET u == b[1] + 256 * b[2] + 65536 * b[3] + 16777216 * (b[4] % 128)
    IN  IF b[4] >= 128 THEN (u - 2147483647) - 1 ELSE u

\* a 64-bit integer (here within the 32-bit range) as 8 bytes: sign-extended
LE64(n) ==
    LE32(n) \o (IF n >= 0 THEN <<0, 0, 0, 0>> ELSE <<255, 255, 255, 255>>)

FromLE64(b) == FromLE32(SubSeq(b, 1, 4))

\* the type tags of the wire format
TagString == 2
TagDocument == 3
TagDateTime == 9
TagInt32 == 16
TagInt64 == 18

\* encode: length prefix, the fields in order (type tag, key, NUL, payload),
\* terminator
RECURSIVE encode_document(_)
encode_document(d) ==
    LET payload(val) ==
            IF val.t = "I32" THEN LE32(val.n)
            ELSE IF val.t \in {"I64", "Date"} THEN LE64(val.n)
            ELSE IF val.t = "Str" THEN LE32(Len(val.s) + 1) \o val.s \o <<0>>
            ELSE encode_document(val.d)
        tag(val) ==
            IF val.t = "I32" THEN TagInt32
            ELSE IF val.t = "I64" THEN TagInt64
            ELSE IF val.t = "Date" THEN TagDateTime
            ELSE IF val.t = "Str" THEN TagString
            ELSE TagDocument
        RECURSIVE fields(_)
        fields(fs) ==
            IF fs = <<>> THEN <<>>
            ELSE <<tag(Head(fs).val)>> \o Head(fs).key \o <<0>>
                 \o payload(Head(fs).val) \o fields(Tail(fs))
        body == fields(d)
    IN  LE32(Len(body) + 5) \o body \o <<0>>

\* the bytes b are well-formed UTF-8 (sequences of one, two and three bytes)
IsCont(x) == x >= 128 /\ x <= 191

\* the length of the UTF-8 sequence that starts at s[i], 0 when there is none
Utf8SeqLen(s, i) ==
    IF s[i] < 128 THEN 1
    ELSE IF s[i] >= 194 /\ s[i] <= 223 /\ i + 1 <= Len(s) /\ IsCont(s[i + 1])
         THEN 2
    ELSE IF s[i] >= 224 /\ s[i] <= 239 /\ i + 2 <= Len(s)
            /\ IsCont(s[i + 1]) /\ IsCont(s[i + 2])
         THEN 3
    ELSE 0

RECURSIVE Utf8Valid(_)
Utf8Valid(s) ==
    \/ s = <<>>
    \/ /\ Utf8SeqLen(s, 1) > 0
       /\ Utf8Valid(SubSeq(s, Utf8SeqLen(s, 1) + 1, Len(s)))

\* U+FFFD in UTF-8
Replacement == <<239, 191, 189>>

\* String::from_utf8_lossy: every invalid byte becomes U+FFFD
RECURSIVE Utf8Lossy(_)
Utf8Lossy(s) ==
    IF s = <<>> THEN <<>>
    ELSE LET n == Utf8SeqLen(s, 1)
         IN  IF n > 0 THEN SubSeq(s, 1, n) \o Utf8Lossy(SubSeq(s, n + 1, Len(s)))
             ELSE Replacement \o Utf8Lossy(Tail(s))

\* decode: the fields front to back, bounded by the length prefix; strict
\* mode fails on a malformed string, lossy mode replaces; an unknown type
\* tag fails the whole decode
RECURSIVE decode_fields(_, _)
decode_fields(f, lossy) ==
    IF f = <<>> THEN Ok(<<>>)
    ELSE IF \A i \in 2..Len(f) : f[i] # 0 THEN Err("corrupt")
    ELSE
    LET nul == CHOOSE i \in 2..Len(f) : f[i] = 0 /\ \A j \in 2..(i - 1) : f[j] # 0
        key == SubSeq(f, 2, nul - 1)
        p == SubSeq(f, nul + 1, Len(f))
        size == IF f[1] = TagInt32 THEN 4
                ELSE IF f[1] \in {TagInt64, TagDateTime} THEN 8
                ELSE IF f[1] \in {TagString, TagDocument} /\ Len(p) >= 4
                     THEN (IF f[1] = TagString THEN 4 ELSE 0) + FromLE32(SubSeq(p, 1, 4))
                ELSE -1
    IN  IF f[1] \notin {TagInt32, TagInt64, TagDateTime, TagString, TagDocument}
        THEN Err("UnsupportedType")
        ELSE IF size < 0 \/ size > Len(p) THEN Err("corrupt")
        ELSE
        LET raw == SubSeq(p, 1, size)
            val == IF f[1] = TagInt32 THEN Ok(I32(FromLE32(raw)))
                   ELSE IF f[1] = TagInt64 THEN Ok(I64(FromLE64(raw)))
                   ELSE IF f[1] = TagDateTime THEN Ok(Date(FromLE64(raw)))
                   ELSE IF f[1] = TagString
                        THEN IF size < 5 \/ raw[size] # 0 THEN Err("corrupt")
                             ELSE LET s == SubSeq(raw, 5, size - 1)
                                  IN  IF Utf8Valid(s) THEN Ok(Str(s))
                                      ELSE IF lossy THEN Ok(Str(Utf8Lossy(s)))
                                      ELSE Err("InvalidUtf8")
                   ELSE IF size < 5 \/ raw[size] # 0 THEN Err("corrupt")
                        ELSE LET sub == decode_fields(SubSeq(raw, 5, size - 1), lossy)
                             IN  IF sub.tag = "Ok" THEN Ok(Doc(sub.val)) ELSE sub
            rest == decode_fields(SubSeq(p, size + 1, Len(p)), lossy)
        IN  IF val.tag = "Err" THEN val
            ELSE IF rest.tag = "Err" THEN rest
            ELSE Ok(<<Field(key, val.val)>> \o rest.val)

decode_bytes(b, lossy) ==
    IF Len(b) < 5 \/ FromLE32(SubSeq(b, 1, 4)) # Len(b) \/ b[Len(b)] # 0
    THEN Err("corrupt")
    ELSE decode_fields(SubSeq(b, 5, Len(b) - 1), lossy)

\* bson::decode_document
decode_document(b) == decode_bytes(b, FALSE)

\* bson::decode_document_utf8_lossy
decode_document_utf8_lossy(b) == decode_bytes(b, TRUE)

\* ------------------------------------------------------------- Bsonc, bytes
\* bson_new_from_data: a copy of the len bytes at data in a buffer of the
\* wrapper's own; NULL when they are no document (length prefix, terminator)
Null == [owner |-> "none"]

bson_new_from_data(data, len) ==
    IF len < 5 \/ len > Len(data) \/ FromLE32(SubSeq(data, 1, 4)) # len
       \/ data[len] # 0
    THEN Null
    ELSE [owner |-> "wrapper", data |-> SubSeq(data, 1, len), len |-> len]

\* bson_get_data
bson_get_data(inner) == inner.data

\* Bsonc::from_document, on the bytes: encode into a Vec, hand the bytes to
\* bson_new_from_data, assert that the result is not NULL
Bsonc_from_document(document) ==
    LET buffer == encode_document(document)
        inner == bson_new_from_data(buffer, Len(buffer))
    IN  IF inner = Null THEN Err("panic") ELSE Ok([inner |-> inner])

\* Bsonc_as_document reading one byte less than the buffer holds
Bsonc_as_document_short(b) ==
    decode_document(SubSeq(bson_get_data(b.inner), 1, b.inner.len - 1))

\* Bsonc::as_document, on the bytes: the slice of bson.len bytes at
\* bson_get_data, decoded strictly
Bsonc_as_document(b) ==
    decode_document(SubSeq(bson_get_data(b.inner), 1, b.inner.len))

\* Bsonc_as_document_utf8_lossy calling the strict decoder
Bsonc_as_document_utf8_lossy_strict(b) ==
    decode_document(SubSeq(bson_get_data(b.inner), 1, b.inner.len))

\* Bsonc::as_document_utf8_lossy
Bsonc_as_document_utf8_lossy(b) ==
    decode_document_utf8_lossy(SubSeq(bson_get_data(b.inner), 1, b.inner.len))

\* the documents tried: up to MaxFields fields with distinct keys
Key(i) == <<96 + i>>

Scalars ==
    {I32(-1), I32(258), I64(1), Date(1),
     Str(<<97>>), Str(<<195, 169>>), Str(<<128, 174>>)}

Values == Scalars \cup {Doc(<<>>)} \cup {Doc(<<Field(Key(1), v)>>) : v \in Scalars}

Documents ==
    UNION { { [i \in 1..n |-> Field(Key(ks[i]), vs[i])] :
                ks \in {f \in [1..n -> 1..MaxFields] :
                           \A i, j \in 1..n : i # j => f[i] # f[j]},
                vs \in [1..n -> Values] }
            : n \in 0..MaxFields }

\* a test builds a document
NewBson(d) ==
    [st |-> "doc", doc |-> d, bsonc |-> NoneOpt, strict |-> NoneOpt,
     lossy |-> NoneOpt]

BsoncFromDocument ==
    /\ bs.st = "doc"
    /\ LET r == Bsonc_from_document(bs.doc)
       IN  bs' = [bs EXCEPT !.st = IF r.tag = "Ok" THEN "buffer" ELSE "failed",
                            !.bsonc = SomeOpt(r)]
    /\ UNCHANGED <<envVars, cursorVars, tailVars, batchVars, dm, pool, once, fl>>

BsoncAsDocument ==
    /\ bs.st = "buffer"
    /\ ~bs.strict.some
    /\ bs' = [bs EXCEPT !.strict = SomeOpt(Bsonc_as_document(bs.bsonc.val.val))]
    /\ UNCHANGED <<envVars, cursorVars, tailVars, batchVars, dm, pool, once, fl>>

BsoncAsDocumentLossy ==
    /\ bs.st = "buffer"
    /\ ~bs.lossy.some
    /\ bs' = [bs EXCEPT !.lossy =
                 SomeOpt(Bsonc_as_document_utf8_lossy(bs.bsonc.val.val))]
    /\ UNCHANGED <<envVars, cursorVars, tailVars, batchVars, dm, pool, once, fl>>

\* the buffer goes out of scope
BsoncDrop ==
    /\ bs.st = "buffer"
    /\ bs' = [bs EXCEPT !.st = "dropped"]
    /\ bson_log' = Bsonc_drop(bs.bsonc.val.val)
    /\ UNCHANGED <<coll, capped, drv, destroyed, faults, ends>>
    /\ UNCHANGED <<cursorVars, tailVars, batchVars, dm, pool, once, fl>>

Init ==
    /\ coll = <<>>
    /\ capped \in BOOLEAN
    /\ drv = <<>>
    /\ destroyed = <<>>
    /\ faults = 0
    /\ ends = 0
    /\ bson_log = {}
    /\ cur = [st |-> "none", inner |-> 0, tailing |-> FALSE]
    /\ c_items = <<>>
    /\ c_log = NoIteration
    /\ tc = NoTailingCursor
    /\ t_pc = "idle"
    /\ t_items = <<>>
    /\ t_log = [k |-> 0, errs |-> 0, slept |-> FALSE, last |-> NoPull]
    /\ bc = NoBatchCursor
    /\ b_items = <<>>
    /\ b_req = [last |-> <<>>, pulled |-> <<>>, first_gm |-> -1]
    /\ b_cmd = NoCommand
    /\ srv = [id |-> 0, sent |-> 0, sizes |-> <<>>, odd |-> 0]
    /\ bs = NoBson
    /\ dm = NoDocument
    /\ pool = NoPool
    /\ once = NoOnce
    /\ fl = NoFlags

\* ------------------------------------------------------------- bson_new.rs
\* Document::new: an empty buffer.  fields is what the buffer holds; ins the
\* calls of insert made, as the caller made them; got the last call of get
Document_new ==
    [st |-> "open", fields |-> <<>>, ins |-> <<>>, got |-> NoneOpt]

\* the values a test inserts (enum Value)
InsertValues == {I32(1), I32(2), Str(Key(2))}

\* key_ptr in Document::insert: CString::new(key).unwrap().as_ptr() points
\* into a temporary that is freed before bson_append_* reads it; what is
\* read there is the key, if the memory was left alone, or other bytes
Dangling(key) == {key} \cup {Key(i) : i \in 1..MaxFields}

\* bson_append_document / _int32 / _int64 / _oid / _utf8: appends the field
\* to the buffer; does not look for the key among the fields already there
bson_append(fields, key, value) == Append(fields, Field(key, value))

\* Document::insert, given the bytes read at key_ptr
Document_insert(d, key, value, read) ==
    [d EXCEPT !.fields = bson_append(d.fields, read, value),
              !.ins = Append(d.ins, Field(key, value))]

\* bson_iter_init, bson_iter_find: the position of the first field with the
\* key, 0 when there is none
bson_iter_find(fields, key) ==
    IF \E i \in 1..Len(fields) : fields[i].key = key
    THEN CHOOSE i \in 1..Len(fields) :
            fields[i].key = key /\ \A j \in 1..(i - 1) : fields[j].key # key
    ELSE 0

\* the documents a driver's buffer wrapped with Document::from_ptr may hold:
\* fields of any BSON type
DriverDocuments ==
    { <<Field(Key(1), Date(1))>>,
      <<Field(Key(1), I32(1)), Field(Key(2), Date(1))>>,
      <<Field(Key(1), Str(Key(2))), Field(Key(2), I64(1))>> }

\* Document::from_ptr: wraps the buffer as it is
Document_from_ptr(fields) ==
    [st |-> "wrapped", fields |-> fields, ins |-> <<>>, got |-> NoneOpt]

\* the arms of the match on bson_iter_type in Document::get
SupportedTypes == {"Doc", "I32", "I64", "ObjectId", "Str"}

\* panic!("Type not supported yet"): get does not return
Panic == [some |-> FALSE, panic |-> TRUE]

\* Document::get: the value of the first field with the key, by its type
Document_get(d, key) ==
    LET i == bson_iter_find(d.fields, key)
    IN  IF i = 0 THEN NoneOpt
        ELSE IF d.fields[i].val.t \in SupportedTypes
             THEN SomeOpt(d.fields[i].val)
        ELSE Panic

\* a Document made from a buffer of the driver's instead of Document::new
DocumentFromPtr(fields) ==
    /\ dm.st = "open" /\ dm.ins = <<>>
    /\ dm' = Document_from_ptr(fields)
    /\ UNCHANGED <<envVars, cursorVars, tailVars, batchVars, bs, pool, once, fl>>

DocumentInsert(k, v) ==
    /\ dm.st = "open"
    /\ Len(dm.ins) < MaxInserts
    /\ \E read \in Dangling(k) : dm' = Document_insert(dm, k, v, read)
    /\ UNCHANGED <<envVars, cursorVars, tailVars, batchVars, bs, pool, once, fl>>

\* a call of get; a panic ends the thread that made the call
DocumentGet(k) ==
    /\ dm.st \in {"open", "wrapped"}
    /\ dm' = [dm EXCEPT !.got = SomeOpt([key |-> k, res |-> Document_get(dm, k)]),
                        !.st = IF Document_get(dm, k) = Panic
                               THEN "panicked" ELSE @]
    /\ UNCHANGED <<envVars, cursorVars, tailVars, batchVars, bs, pool, once, fl>>

\* ------------------------------------------------------------- client.rs
\* ClientPool::new for each of the pools: free[p], the handles that rest in
\* the driver's pool p; made[p], the handles pool p has created; clients,
\* the Client objects alive, each [thread, client_pool, inner]; pops and
\* pushes, the calls of mongoc_client_pool_pop that returned a handle and of
\* mongoc_client_pool_push made with it.  A handle is <<pool, number>>.
Pools == 1..MaxPools
Threads == 1..MaxThreads
Handles == Pools \X (1..MaxPoolSize)

ClientPool_new ==
    [st |-> "open",
     free |-> [p \in Pools |-> {}],
     made |-> [p \in Pools |-> 0],
     clients |-> {},
     pops |-> [h \in Handles |-> 0],
     pushes |-> [h \in Handles |-> 0]]

\* mongoc_client_pool_pop: a handle that rests in the pool, or a new one
\* while the pool has made less than its maximum; the call blocks otherwise
mongoc_client_pool_pop(pl, p) ==
    pl.free[p] \cup (IF pl.made[p] < MaxPoolSize THEN {<<p, pl.made[p] + 1>>}
                     ELSE {})

\* mongoc_client_pool_push: the handle rests in pool p again
mongoc_client_pool_push(pl, p, h) ==
    [pl EXCEPT !.free[p] = @ \cup {h}, !.pushes[h] = @ + 1]

\* ClientPool::pop by thread t, the driver handing out h: the handle is
\* wrapped in one Client that points back to the pool
ClientPool_pop(pl, t, p, h) ==
    [pl EXCEPT !.free[p] = @ \ {h},
               !.made[p] = IF h \in pl.free[p] THEN @ ELSE @ + 1,
               !.pops[h] = @ + 1,
               !.clients = @ \cup {[thread |-> t, client_pool |-> p, inner |-> h]}]

\* Client_drop without the push
Client_drop_leak(pl, c) ==
    [pl EXCEPT !.clients = @ \ {c}]

\* Client_drop pushing to the first pool, whatever pool the Client came from
Client_drop_first(pl, c) ==
    mongoc_client_pool_push([pl EXCEPT !.clients = @ \ {c}], 1, c.inner)

\* impl Drop for Client: self.client_pool.push(self.inner)
Client_drop(pl, c) ==
    mongoc_client_pool_push([pl EXCEPT !.clients = @ \ {c}],
                            c.client_pool, c.inner)

\* thread t pops a client from pool p
PoolPop(t, p) ==
    /\ pool.st = "open"
    /\ \E h \in mongoc_client_pool_pop(pool, p) :
          /\ pool.pops[h] < MaxPops
          /\ pool' = ClientPool_pop(pool, t, p, h)
    /\ UNCHANGED <<envVars, cursorVars, tailVars, batchVars, bs, dm, once, fl>>

\* a Client goes out of scope in the thread that popped it (Client is
\* neither Send nor Clone: it holds a raw pointer)
ClientDrop(t) ==
    /\ pool.st = "open"
    /\ \E c \in pool.clients :
          /\ c.thread = t
          /\ pool' = Client_drop(pool, c)
    /\ UNCHANGED <<envVars, cursorVars, tailVars, batchVars, bs, dm, once, fl>>

\* ------------------------------------------------------------- lib.rs, init
\* MONGOC_INIT and the threads that call init(): state, the Once
\* ("incomplete", "running", "complete"); inits and handlers, the calls of
\* mongoc_init and mongoc_log_set_handler made; pools, the calls of
\* mongoc_client_pool_new made; unready, those made before both had run;
\* pc[t], where thread t stands; via[t], whether it called init() through
\* ClientPool::new; calls[t], the calls of init() it has made
Once_new ==
    [st |-> "open", state |-> "incomplete", inits |-> 0, handlers |-> 0,
     pools |-> 0, unready |-> 0,
     pc |-> [t \in Threads |-> "idle"],
     via |-> [t \in Threads |-> FALSE],
     calls |-> [t \in Threads |-> 0]]

\* init() running its body on every call, without the Once
call_once_always(state) == "run"

\* Once::call_once: the first caller runs the closure, a caller that finds
\* it running waits for it to finish, a later caller does nothing
call_once(state) ==
    IF state = "incomplete" THEN "run"
    ELSE IF state = "running" THEN "wait"
    ELSE "skip"

\* thread t calls init(), directly or as the first statement of
\* ClientPool::new
InitCall(t, from_pool) ==
    /\ once.st = "open"
    /\ once.pc[t] = "idle"
    /\ once.calls[t] < MaxInitCalls
    /\ once' = [once EXCEPT !.pc[t] = "call_once", !.via[t] = from_pool,
                            !.calls[t] = @ + 1]
    /\ UNCHANGED <<envVars, cursorVars, tailVars, batchVars, bs, dm, pool, fl>>

\* MONGOC_INIT.call_once(|| ...)
InitCallOnce(t) ==
    /\ once.st = "open"
    /\ once.pc[t] = "call_once"
    /\ call_once(once.state) # "wait"
    /\ once' = IF call_once(once.state) = "run"
               THEN [once EXCEPT !.state = "running", !.pc[t] = "mongoc_init"]
               ELSE [once EXCEPT !.pc[t] = "return"]
    /\ UNCHANGED <<envVars, cursorVars, tailVars, batchVars, bs, dm, pool, fl>>

\* the closure: bindings::mongoc_init()
InitMongoc(t) ==
    /\ once.st = "open"
    /\ once.pc[t] = "mongoc_init"
    /\ once' = [once EXCEPT !.inits = @ + 1, !.pc[t] = "set_handler"]
    /\ UNCHANGED <<envVars, cursorVars, tailVars, batchVars, bs, dm, pool, fl>>

\* the closure: bindings::mongoc_log_set_handler(...); the Once completes
InitSetHandler(t) ==
    /\ once.st = "open"
    /\ once.pc[t] = "set_handler"
    /\ once' = [once EXCEPT !.handlers = @ + 1, !.state = "complete",
                            !.pc[t] = "return"]
    /\ UNCHANGED <<envVars, cursorVars, tailVars, batchVars, bs, dm, pool, fl>>

\* init() returns; ClientPool::new goes on to mongoc_client_pool_new
InitReturn(t) ==
    /\ once.st = "open"
    /\ once.pc[t] = "return"
    /\ once' = IF once.via[t]
               THEN [once EXCEPT !.pc[t] = "idle", !.pools = @ + 1,
                                 !.unready = IF once.inits >= 1 /\ once.handlers >= 1
                                             THEN @ ELSE @ + 1]
               ELSE [once EXCEPT !.pc[t] = "idle"]
    /\ UNCHANGED <<envVars, cursorVars, tailVars, batchVars, bs, dm, pool, fl>>

\* ------------------------------------------------------------- flags.rs
\* bitwise or of two u32
RECURSIVE BitOr(_, _)
BitOr(a, b) ==
    IF a = 0 THEN b
    ELSE IF b = 0 THEN a
    ELSE (IF a % 2 = 1 \/ b % 2 = 1 THEN 1 ELSE 0) + 2 * BitOr(a \div 2, b \div 2)

\* the flag types and their flags, in the order of the enum (the order of
\* the BTreeSet)
FlagTypes == {"InsertFlag", "QueryFlag", "RemoveFlag", "UpdateFlag"}

FlagsOf(ty) ==
    IF ty = "InsertFlag" THEN <<"ContinueOnError", "NoValidate">>
    ELSE IF ty = "QueryFlag"
         THEN <<"TailableCursor", "SlaveOk", "OplogReplay", "NoCursorTimeout",
                "AwaitData", "Exhaust", "Partial">>
    ELSE IF ty = "RemoveFlag" THEN <<"SingleRemove">>
    ELSE <<"Upsert", "MultiUpdate">>

\* const INSERT_FLAG_NO_VALIDATE: u32 = 1 | 31
INSERT_FLAG_NO_VALIDATE == BitOr(1, 31)

\* the value the match in flags() gives a flag (the MONGOC_* constants of
\* the bindings)
FlagValue(ty, flag) ==
    IF ty = "InsertFlag"
    THEN (IF flag = "ContinueOnError" THEN 1 ELSE INSERT_FLAG_NO_VALIDATE)
    ELSE IF ty = "QueryFlag"
    THEN (CASE flag = "TailableCursor" -> 2
            [] flag = "SlaveOk" -> 4
            [] flag = "OplogReplay" -> 8
            [] flag = "NoCursorTimeout" -> 16
            [] flag = "AwaitData" -> 32
            [] flag = "Exhaust" -> 64
            [] OTHER -> 128)
    ELSE IF ty = "RemoveFlag" THEN 1
    ELSE (IF flag = "Upsert" THEN 1 ELSE 2)

\* Flags::new
Flags_new(ty) ==
    [st |-> "open", ty |-> ty, flags |-> {}, adds |-> <<>>,
     last |-> [present |-> FALSE, before |-> 0]]

\* Flags::add: BTreeSet::insert
Flags_add(f, flag) == [f EXCEPT !.flags = @ \cup {flag}]

\* flags() adding the values up instead of or-ing them
Flags_flags_sum(f) ==
    LET order == FlagsOf(f.ty)
        RECURSIVE fold(_, _)
        fold(acc, i) ==
            IF i > Len(order) THEN acc
            ELSE fold(IF order[i] \in f.flags
                      THEN acc + FlagValue(f.ty, order[i]) ELSE acc, i + 1)
    IN  IF f.flags = {} THEN 0 ELSE fold(0, 1)

\* FlagsValue::flags: the NONE value of the bindings (0) for the empty set;
\* otherwise the fold of | over the set in its order (for RemoveFlag, the
\* one value there is)
Flags_flags(f) ==
    LET order == FlagsOf(f.ty)
        RECURSIVE fold(_, _)
        fold(acc, i) ==
            IF i > Len(order) THEN acc
            ELSE fold(IF order[i] \in f.flags
                      THEN BitOr(acc, FlagValue(f.ty, order[i])) ELSE acc, i + 1)
    IN  IF f.flags = {} THEN 0
        ELSE IF f.ty = "RemoveFlag" THEN FlagValue(f.ty, "SingleRemove")
        ELSE fold(0, 1)

\* a caller adds a flag; last: whether it was present and what flags() was
FlagsAdd(flag) ==
    /\ fl.st = "open"
    /\ Len(fl.adds) < MaxAdds
    /\ \E i \in 1..Len(FlagsOf(fl.ty)) : FlagsOf(fl.ty)[i] = flag
    /\ fl' = [Flags_add(fl, flag) EXCEPT
                 !.adds = Append(@, flag),
                 !.last = [present |-> flag \in fl.flags,
                           before |-> Flags_flags(fl)]]
    /\ UNCHANGED <<envVars, cursorVars, tailVars, batchVars, bs, dm, pool, once>>

\* everything but the part under test is out of use
IdleCursors ==
    /\ coll = <<>> /\ capped = FALSE /\ drv = <<>> /\ destroyed = <<>>
    /\ faults = 0 /\ ends = 0 /\ bson_log = {}
    /\ cur = [st |-> "none", inner |-> 0, tailing |-> FALSE]
    /\ c_items = <<>>
    /\ c_log = NoIteration
    /\ tc = NoTailingCursor /\ t_pc = "idle" /\ t_items = <<>>
    /\ t_log = [k |-> 0, errs |-> 0, slept |-> FALSE, last |-> NoPull]
    /\ bc = NoBatchCursor /\ b_items = <<>>
    /\ b_req = [last |-> <<>>, pulled |-> <<>>, first_gm |-> -1]
    /\ b_cmd = NoCommand
    /\ srv = [id |-> 0, sent |-> 0, sizes |-> <<>>, odd |-> 0]

InitBson ==
    /\ IdleCursors
    /\ bs \in {NewBson(d) : d \in Documents}
    /\ dm = NoDocument /\ pool = NoPool /\ once = NoOnce /\ fl = NoFlags

NextBson ==
    \/ BsoncFromDocument
    \/ BsoncAsDocument
    \/ BsoncAsDocumentLossy
    \/ BsoncDrop

\* a document is encoded into a Bsonc and decoded from it
SpecBson == InitBson /\ [][NextBson]_vars

InitDocument ==
    /\ IdleCursors
    /\ dm = Document_new
    /\ bs = NoBson /\ pool = NoPool /\ once = NoOnce /\ fl = NoFlags

NextDocument ==
    \/ \E k \in {Key(i) : i \in 1..MaxFields}, v \in InsertValues : DocumentInsert(k, v)
    \/ \E k \in {Key(i) : i \in 1..MaxFields} : DocumentGet(k)
    \/ \E fields \in DriverDocuments : DocumentFromPtr(fields)

\* a Document of bson_new.rs is filled and read
SpecDocument == InitDocument /\ [][NextDocument]_vars

InitPool ==
    /\ IdleCursors
    /\ pool = ClientPool_new
    /\ bs = NoBson /\ dm = NoDocument /\ once = NoOnce /\ fl = NoFlags

NextPool ==
    \/ \E t \in Threads, p \in Pools : PoolPop(t, p)
    \/ \E t \in Threads : ClientDrop(t)

\* threads pop clients from shared pools and drop them
SpecPool == InitPool /\ [][NextPool]_vars

InitOnce ==
    /\ IdleCursors
    /\ once = Once_new
    /\ bs = NoBson /\ dm = NoDocument /\ pool = NoPool /\ fl = NoFlags

NextOnce ==
    \/ \E t \in Threads, from_pool \in BOOLEAN : InitCall(t, from_pool)
    \/ \E t \in Threads : InitCallOnce(t)
    \/ \E t \in Threads : InitMongoc(t)
    \/ \E t \in Threads : InitSetHandler(t)
    \/ \E t \in Threads : InitReturn(t)

\* threads call init(), directly and through ClientPool::new
SpecOnce == InitOnce /\ [][NextOnce]_vars

AllFlags ==
    UNION { {FlagsOf(ty)[i] : i \in 1..Len(FlagsOf(ty))} : ty \in FlagTypes }

InitFlags ==
    /\ IdleCursors
    /\ fl \in {Flags_new(ty) : ty \in FlagTypes}
    /\ bs = NoBson /\ dm = NoDocument /\ pool = NoPool /\ once = NoOnce

NextFlags == \E flag \in AllFlags : FlagsAdd(flag)

\* flags are added to a Flags of each type
SpecFlags == InitFlags /\ [][NextFlags]_vars

NextCursor ==
    \/ \E v \in BOOLEAN : Insert(v)
    \/ \E t \in BOOLEAN : CollectionFind(t)
    \/ CursorNext
    \/ CursorDrop

\* a program that opens a plain Cursor
SpecCursor == Init /\ [][NextCursor]_vars

NextTailing ==
    \/ \E v \in BOOLEAN : Insert(v)
    \/ \E R \in 0..MaxRetriesOpt : CollectionTail(R)
    \/ TailingFind
    \/ TailingPull
    \/ TailingDrop

\* a program that opens a TailingCursor
SpecTailing == Init /\ [][NextTailing]_vars

\* a call of next() that has started keeps running: the thread is not stopped
\* inside TailingCursor::next
FairSpecTailing ==
    /\ SpecTailing
    /\ WF_vars(t_pc # "idle" /\ TailingFind)
    /\ WF_vars(t_pc # "idle" /\ TailingPull)

NextBatch ==
    \/ \E v \in BOOLEAN : Insert(v)
    \/ CommandBatch
    \/ BatchNext
    \/ BatchDrop

\* a program that opens a BatchCursor
SpecBatch == Init /\ [][NextBatch]_vars

\* a program that opens one of the three iterators
Next ==
    \/ \E v \in BOOLEAN : Insert(v)
    \/ \E t \in BOOLEAN : CollectionFind(t)
    \/ CursorNext
    \/ CursorDrop
    \/ \E R \in 0..MaxRetriesOpt : CollectionTail(R)
    \/ TailingFind
    \/ TailingPull
    \/ TailingDrop
    \/ CommandBatch
    \/ BatchNext
    \/ BatchDrop

Spec == Init /\ [][Next]_vars

\* ------------------------------------------------------------- claims
\* the plain cursor runs a query that is not tailable, and the driver
\* reported no error: a fixed result set of drv[cur.inner].limit documents
FixedResultSet == cur.st = "open" /\ ~drv[cur.inner].tailable /\ faults = 0

\* C1, as stated: over a fixed result set of N documents the calls of
\* Cursor::next return N Ok items and then None, again and again.
C1_Original ==
    FixedResultSet =>
        \A i \in 1..Len(c_items) :
            c_items[i].tag = IF i <= drv[cur.inner].limit THEN "Ok" ELSE "None"

\* C1, amended: over a fixed result set of N documents the calls of
\* Cursor::next return N items, the i-th being Ok(document i) when document i
\* decodes and the decoding error when it does not, and then None on every
\* later call.
C1_Exhaustion ==
    FixedResultSet =>
        \A i \in 1..Len(c_items) :
            c_items[i] = IF i <= drv[cur.inner].limit
                         THEN (IF coll[i] THEN SomeOk(i) ELSE SomeErr("decode"))
                         ELSE None

\* every document was returned, the first one Ok, and next() was called
\* twice more
C1_Witness ==
    /\ FixedResultSet
    /\ drv[cur.inner].limit >= 1
    /\ Len(c_items) = drv[cur.inner].limit + 2
    /\ c_items[1].tag = "Ok"
    /\ Last(c_items) = None

\* C2, as stated: after next() returned None or a driver error, no later
\* call of next() on the same Cursor returns an Ok document.
C2_Original ==
    \A i, j \in 1..Len(c_items) :
        (i < j /\ c_items[i] \in {None, SomeErr("driver")})
            => c_items[j].tag # "Ok"

\* the handles the iterators hold now
Held ==
    (IF cur.st = "open" THEN {cur.inner} ELSE {})
    \cup (IF tc.st = "open" /\ tc.cursor # 0 THEN {tc.cursor} ELSE {})
    \cup (IF bc.st = "open" THEN {bc.cursor} ELSE {})

\* C3: mongoc_cursor_destroy has been called once on every handle that was
\* wrapped in a Cursor and is no longer held (discarded on reconnect, replaced
\* after a getMore, or its owner dropped), never on a handle still held, and
\* never twice.
C3_DestroyedOnce ==
    \A h \in 1..Len(drv) : destroyed[h] = IF h \in Held THEN 0 ELSE 1

\* a TailingCursor that reconnected at least once was dropped
C3_Witness ==
    tc.st = "dropped" /\ Len(drv) >= 2 /\ t_items # <<>>

\* C4, as stated: bson_destroy is never called on a buffer the driver owns.
C4_Original ==
    \A e \in bson_log : e.owner # "driver"

\* C5: an inner pull of a TailingCursor that returns an error is returned to
\* the caller exactly when it is at least the (max_retries + 1)-th pull in a
\* row without an Ok item: the max_retries failures before it were retried.
C5_RetryBound ==
    t_log.last.res = "Err" =>
        (t_log.last.returned <=> t_log.last.k >= tc.max_retries + 1)

\* the (R+1)-th failure in a row, R >= 1, was an error and was returned
C5_Witness ==
    /\ tc.max_retries >= 1
    /\ t_log.last.res = "Err"
    /\ t_log.last.k = tc.max_retries + 1
    /\ t_log.last.returned

\* C6: when TailingCursor::next has returned an Ok item, retry_count is 0.
C6_ResetOnOk ==
    (t_pc = "idle" /\ t_items # <<>> /\ Last(t_items).tag = "Ok")
        => tc.retry_count = 0

\* an Ok item was returned by a call that found retry_count above 0
C6_Witness ==
    /\ t_pc = "idle" /\ t_items # <<>> /\ Last(t_items).tag = "Ok"
    /\ t_log.last.res = "Ok"
    /\ t_log.last.retry_before > 0

\* C7, as stated: the documents a TailingCursor returns have strictly
\* increasing ids, across reconnects too: none is returned again.
C7_Original ==
    \A i, j \in 1..Len(t_items) :
        (i < j /\ t_items[i].tag = "Ok" /\ t_items[j].tag = "Ok")
            => t_items[i].doc < t_items[j].doc

\* a call of TailingCursor::next gets at most max_retries + 1 errors from its
\* inner pulls and always has a next step while it runs; on a collection
\* that is not capped, where every pull fails with an error, what it returns
\* is an error
BoundedAttempts ==
    tc.st = "open" =>
        /\ t_log.errs <= tc.max_retries + 1
        /\ t_pc # "idle" => ENABLED (TailingFind \/ TailingPull)
        /\ (~capped /\ t_pc = "idle" /\ t_items # <<>>)
               => Last(t_items).tag = "Err"

\* C8: when every pull of every inner cursor fails with an error (the
\* collection is not capped), a call of TailingCursor::next that has started
\* ends, after at most max_retries + 1 failed pulls, and returns an error.
C8_Terminates ==
    /\ []BoundedAttempts
    /\ (~capped /\ t_pc # "idle") ~> (t_pc = "idle" /\ t_items # <<>>)

\* on a collection that is not capped the first call made max_retries + 1
\* pulls, max_retries >= 1, and returned an error
C8_Witness ==
    /\ ~capped /\ tc.st = "open" /\ t_pc = "idle"
    /\ tc.max_retries >= 1
    /\ Len(t_items) = 1 /\ t_items[1] = SomeErr("driver")
    /\ t_log.errs = tc.max_retries + 1

\* C9: no call of BatchCursor::next asked for a new batch (a pull from the
\* inner cursor, a getMore) while a document was in the local queue.
C9_NoPrefetch ==
    \A i \in 1..Len(b_req.last) : b_req.last[i].queued = 0

\* a call of next() pulled, issued a getMore, pulled again and returned a
\* document, after an earlier call had returned one from the first batch
C9_Witness ==
    /\ Len(b_req.last) = 3
    /\ b_items # <<>> /\ Last(b_items).tag = "Ok"
    /\ OkCount(b_items) >= 2

\* no driver error, every reply a well-formed batch, every document handed
\* out decodes
CleanBatches ==
    /\ bc.st = "open"
    /\ faults = 0 /\ srv.odd = 0
    /\ \A i \in 1..srv.sent : coll[i]

\* the documents of a reply the inner cursor has not been asked for yet
InFlight ==
    LET r == drv[bc.cursor].reply
    IN  IF r = <<>> \/ r[1] = ErrorReply THEN 0
        ELSE IF r[1].data.doc.first_batch.some
             THEN Len(r[1].data.doc.first_batch.val)
        ELSE IF r[1].data.doc.next_batch.some
             THEN Len(r[1].data.doc.next_batch.val)
        ELSE 0

\* C10: with well-formed batches and no driver error, BatchCursor::next
\* returns the documents the server handed out, in the server's order, each
\* once, as far as they are not still queued (or in a reply not yet
\* pulled); the first getMore is issued after exactly the documents of the
\* first batch were returned; and after a first batch of B and a second batch
\* of C documents with cursor id 0, iteration to None has returned exactly
\* B + C documents.
C10_DrainThenFetch ==
    CleanBatches =>
        /\ \A i \in 1..Len(b_items) : b_items[i].tag # "Err"
        /\ \A i \in 1..Len(b_items) :
              b_items[i].tag = "Ok" => b_items[i].doc = OkCount(SubSeq(b_items, 1, i))
        /\ OkCount(b_items) = srv.sent - Queued(bc) - InFlight
        /\ b_req.first_gm # -1 => b_req.first_gm = srv.sizes[1]
        /\ (Len(srv.sizes) = 2 /\ srv.id = 0 /\ b_items # <<>>
            /\ Last(b_items) = None)
               => OkCount(b_items) = srv.sizes[1] + srv.sizes[2]

\* both batches held a document and iteration reached None
C10_Witness ==
    /\ CleanBatches
    /\ Len(srv.sizes) = 2 /\ srv.sizes[1] >= 1 /\ srv.sizes[2] >= 1
    /\ srv.id = 0
    /\ b_items # <<>> /\ Last(b_items) = None
    /\ b_req.first_gm = srv.sizes[1]

\* every String of the document, nested ones too, is well-formed UTF-8 (what
\* safe code can build)
RECURSIVE DocValid(_)
DocValid(d) ==
    \A i \in 1..Len(d) :
        /\ d[i].val.t = "Str" => Utf8Valid(d[i].val.s)
        /\ d[i].val.t = "Doc" => DocValid(d[i].val.d)

\* C11: for a Document of the supported value variants, Bsonc::from_document
\* succeeds and Bsonc::as_document on its result gives a Document equal to
\* the original: the same keys in the same order with the same values.
C11_RoundTrip ==
    (bs.st \in {"buffer", "failed", "dropped"} /\ DocValid(bs.doc)) =>
        /\ bs.bsonc.val.tag = "Ok"
        /\ bs.strict.some => bs.strict.val = Ok(bs.doc)

\* a document of two fields, a nested document with a string among them,
\* was encoded and decoded
C11_Witness ==
    /\ bs.st = "buffer" /\ DocValid(bs.doc) /\ bs.strict.some
    /\ Len(bs.doc) = 2
    /\ bs.doc[1].val = Doc(<<Field(Key(1), Str(<<195, 169>>))>>)
    /\ bs.doc[2].val = I32(-1)

\* the document with every malformed String replaced as from_utf8_lossy does
RECURSIVE LossyDoc(_)
LossyDoc(d) ==
    [i \in 1..Len(d) |->
        Field(d[i].key,
              IF d[i].val.t = "Str" THEN Str(Utf8Lossy(d[i].val.s))
              ELSE IF d[i].val.t = "Doc" THEN Doc(LossyDoc(d[i].val.d))
              ELSE d[i].val)]

\* C12: for a buffer with a string payload that is not UTF-8 (the bytes 0x80
\* 0xAE), as_document fails with the invalid-UTF-8 decoding error and
\* as_document_utf8_lossy succeeds, giving the document with each invalid
\* sequence replaced by U+FFFD (two of them for 0x80 0xAE); the lossy decode
\* of a buffer made by from_document never fails.
C12_LossyVsStrict ==
    /\ (bs.st = "buffer" /\ ~DocValid(bs.doc) /\ bs.strict.some)
           => bs.strict.val = Err("InvalidUtf8")
    /\ (bs.st = "buffer" /\ bs.lossy.some) =>
           /\ bs.lossy.val = Ok(LossyDoc(bs.doc))
           /\ \A i \in 1..Len(bs.doc) :
                 bs.doc[i].val = Str(<<128, 174>>) =>
                     bs.lossy.val.val[i].val = Str(<<239, 191, 189, 239, 191, 189>>)

\* the document {key: 0x80 0xAE} was decoded both ways
C12_Witness ==
    /\ bs.st = "buffer"
    /\ bs.doc = <<Field(Key(1), Str(<<128, 174>>))>>
    /\ bs.strict.some /\ bs.lossy.some

\* the keys of a sequence of fields, each at its first place
RECURSIVE FirstKeys(_)
FirstKeys(fs) ==
    IF fs = <<>> THEN <<>>
    ELSE LET rest == FirstKeys(SubSeq(fs, 1, Len(fs) - 1))
             k == fs[Len(fs)].key
         IN  IF \E i \in 1..Len(rest) : rest[i] = k THEN rest ELSE Append(rest, k)

\* C13, as stated: after any sequence of inserts every key occurs at most
\* once in the Document, the fields are in the order of insertion, and
\* get(key) returns a value inserted for the key, None for a key never
\* inserted.
C13_Original ==
    dm.st = "open" =>
        /\ \A i, j \in 1..Len(dm.fields) :
              i # j => dm.fields[i].key # dm.fields[j].key
        /\ [i \in 1..Len(dm.fields) |-> dm.fields[i].key] = FirstKeys(dm.ins)
        /\ dm.got.some =>
              IF \E i \in 1..Len(dm.ins) : dm.ins[i].key = dm.got.val.key
              THEN /\ dm.got.val.res.some
                   /\ \E i \in 1..Len(dm.ins) :
                         /\ dm.ins[i].key = dm.got.val.key
                         /\ dm.ins[i].val.t = dm.got.val.res.val.t
                         /\ dm.ins[i].val = dm.got.val.res.val
              ELSE ~dm.got.val.res.some

\* the Client objects that hold handle h
Holders(h) == {c \in pool.clients : c.inner = h}

\* C14: under any interleaving of pop and drop by the threads sharing a
\* ClientPool, a handle that was popped is held by exactly one Client (so by
\* one thread) until that Client is dropped, the drop pushes it back once, to
\* the pool it came from, and no handle is held by two Clients or rests in a
\* pool while a Client holds it.
C14_OneHolder ==
    pool.st = "open" =>
        \A h \in Handles :
            /\ Cardinality(Holders(h)) <= 1
            /\ pool.pushes[h] = pool.pops[h] - Cardinality(Holders(h))
            /\ \A c \in Holders(h) : c.client_pool = h[1]
            /\ \A p \in Pools : h \in pool.free[p] => (p = h[1] /\ Holders(h) = {})

\* both threads hold a client of the second pool, one of them on a handle
\* that was popped, pushed back and popped again
C14_Witness ==
    /\ pool.st = "open"
    /\ \E c1, c2 \in pool.clients :
          /\ c1.thread = 1 /\ c2.thread = 2
          /\ c1.client_pool = 2 /\ c2.client_pool = 2
          /\ pool.pops[c1.inner] = 2 /\ pool.pushes[c1.inner] = 1

\* C15: however often and from however many threads init() is called,
\* directly or through ClientPool::new, mongoc_init and
\* mongoc_log_set_handler are each called at most once, exactly once as soon
\* as one call of init() has returned, and no mongoc_client_pool_new was made
\* before both had run.
C15_InitOnce ==
    once.st = "open" =>
        /\ once.inits <= 1 /\ once.handlers <= 1
        /\ (\E t \in Threads : once.pc[t] = "return"
                               \/ (once.pc[t] = "idle" /\ once.calls[t] > 0))
               => (once.inits = 1 /\ once.handlers = 1 /\ once.state = "complete")
        /\ once.unready = 0

\* both threads called init() twice and returned, and two pools were made
C15_Witness ==
    /\ once.st = "open"
    /\ \A t \in Threads : once.calls[t] = 2 /\ once.pc[t] = "idle"
    /\ once.pools >= 2

\* bit i of v (the values of the flags are below 2^8)
Bit(v, i) == (v \div (2 ^ i)) % 2

\* C16: for every flag type, flags() is 0 for the empty set and otherwise
\* the bitwise or of the values of the distinct flags added (a bit is set
\* exactly when it is set in the value of a flag that was added, in whatever
\* order the adds were made); adding a flag that is present leaves flags()
\* as it was.
C16_FlagsOr ==
    fl.st = "open" =>
        /\ fl.adds = <<>> => Flags_flags(fl) = 0
        /\ \A i \in 0..30 :
              Bit(Flags_flags(fl), i) = 1 <=>
                  \E k \in 1..Len(fl.adds) : Bit(FlagValue(fl.ty, fl.adds[k]), i) = 1
        /\ fl.last.present => Flags_flags(fl) = fl.last.before

\* ContinueOnError and NoValidate were added, NoValidate twice
C16_Witness ==
    /\ fl.st = "open" /\ fl.ty = "InsertFlag"
    /\ fl.adds = <<"ContinueOnError", "NoValidate", "NoValidate">>
    /\ fl.last.present
    /\ Flags_flags(fl) = 31

\* the string values the command has under find, aggregate and listIndexes,
\* in this order
NamesIn(doc) ==
    LET has(k) == \E i \in 1..Len(doc) : doc[i].key = k /\ doc[i].val.t = "Str"
        at(k) == (CHOOSE f \in {doc[i] : i \in 1..Len(doc)} : f.key = k).val.s
    IN  (IF has("find") THEN <<at("find")>> ELSE <<>>)
        \o (IF has("aggregate") THEN <<at("aggregate")>> ELSE <<>>)
        \o (IF has("listIndexes") THEN <<at("listIndexes")>> ELSE <<>>)

\* C17: command_batch takes the collection name from the string value of the
\* first of the keys find, aggregate, listIndexes the command has (first in
\* this order, a key with a value that is no string counting as absent); when
\* there is none it returns InvalidParamsError, no command was sent to the
\* driver and no BatchCursor exists.
C17_CollName ==
    b_cmd.res # "none" =>
        IF NamesIn(b_cmd.doc) = <<>>
        THEN /\ b_cmd.res = "InvalidParamsError" /\ ~b_cmd.sent
             /\ bc.st = "none" /\ drv = <<>>
        ELSE /\ b_cmd.sent
             /\ b_cmd.res = "Ok" => (bc.st # "none"
                                     /\ bc.coll_name = NamesIn(b_cmd.doc)[1])

\* a command without any of the keys was refused, then one that has
\* aggregate before find gave a BatchCursor on the collection of find
C17_Witness ==
    /\ b_cmd.doc = <<CmdField("aggregate", CmdStr("b")), CmdField("find", CmdStr("a"))>>
    /\ b_cmd.res = "Ok" /\ b_cmd.refused
    /\ bc.st = "open" /\ bc.coll_name = "a"

\* C18, as stated: when a call of TailingCursor::next has returned
\* Some(Ok(item)), the last-seen id of the TailingCursor is the item's _id
\* (so that the next reconnect filters on `_id > last-seen`).
C18_Original ==
    (tc.st = "open" /\ t_pc = "idle" /\ t_items # <<>>
        /\ Last(t_items).tag = "Ok")
        => tc.last_seen_id = Last(t_items).doc

\* C19, as stated: BatchCursor::next issues a getMore only when a nonzero
\* cursor id is on file; once the server has reported cursor id 0 and the
\* local queue is empty, next() issues no getMore.
C19_Original ==
    \A i \in 1..Len(b_req.last) :
        b_req.last[i].kind = "getMore"
            => b_req.last[i].id.some /\ b_req.last[i].id.val # 0

C21_ErrorSurfaced ==
    (c_log.asked /\ c_log.success = 0 /\ c_log.error)
        => /\ c_log.res = SomeErr("driver")
           /\ cur.st = "open" => Last(c_items) = SomeErr("driver")

\* the driver reported an error to a tailing Cursor that had already
\* returned a document, and the Cursor returned the error
C21_Witness ==
    /\ c_log.tailing
    /\ c_log.asked /\ c_log.success = 0 /\ c_log.error
    /\ c_log.res = SomeErr("driver")
    /\ t_items # <<>>

\* C22: an iteration of Cursor::next ends in a sleep only when the driver
\* gave no document and no error and the Cursor is tailing and still alive;
\* a Cursor that is not tailing never sleeps; with no document and no error
\* on a Cursor that is not tailing or no longer alive it returns None.
C22_SleepOnlyTailing ==
    /\ c_log.res = Sleep
          => /\ c_log.asked /\ c_log.success = 0 /\ ~c_log.error
             /\ c_log.tailing /\ c_log.alive
    /\ (c_log.asked /\ c_log.success = 0 /\ ~c_log.error
           /\ ~(c_log.tailing /\ c_log.alive))
          => c_log.res = None

\* a Cursor over a tailable query, its tailing flag not set, found no
\* document and no error on a cursor still alive, and returned None
C22_Witness ==
    /\ cur.st = "open" /\ drv[cur.inner].tailable
    /\ ~c_log.tailing
    /\ c_log.asked /\ c_log.success = 0 /\ ~c_log.error /\ c_log.alive
    /\ c_log.res = None
    /\ Last(c_items) = None

\* the items of the plain Cursor that stand for a document the driver handed
\* out: the Ok items and the decoding errors
Pulled == SelectSeq(c_items, LAMBDA r : r.tag = "Ok" \/ r = SomeErr("decode"))

\* C23: a document that fails to decode gives one Some(Err) and the Cursor
\* stays usable: the j-th document the driver handed out is the j-th of
\* the Ok and decoding-error items, as Ok(document j) when it decodes and
\* as the decoding error when it does not, so no document is skipped,
\* repeated or changed; after a decoding error the driver's cursor still
\* reports more.
C23_DecodeErrorOnce ==
    cur.st = "open" =>
        /\ \A j \in 1..Len(Pulled) :
              /\ j <= Len(coll)
              /\ Pulled[j] = IF coll[j] THEN SomeOk(j) ELSE SomeErr("decode")
        /\ c_log.res = SomeErr("decode") => more(drv[cur.inner])

\* the first document failed to decode, the call after it returned the
\* second document
C23_Witness ==
    /\ cur.st = "open"
    /\ Len(c_items) >= 2
    /\ c_items[1] = SomeErr("decode")
    /\ c_items[2] = SomeOk(2)

BadEnvelope(item) == item.tag = "Ok" /\ ~item.doc.well_formed

\* C24: when a document pulled from the inner cursor does not parse as a
\* batch envelope, that call of BatchCursor::next returns Some(Err): the
\* pull is the last request of the call (no getMore, no pull after it), and
\* the queue and the cursor id are what they were when the pull was made.
C24_ParseErrorAtOnce ==
    \A i \in 1..Len(b_req.pulled) :
        BadEnvelope(b_req.pulled[i]) =>
            /\ i = Len(b_req.pulled)
            /\ Last(b_req.last).kind = "pull"
            /\ i = 1 => Len(b_req.last) = 1
            /\ Last(b_items) = SomeErr("value_access")
            /\ bc.cursor_id = Last(b_req.last).id
            /\ Queued(bc) = Last(b_req.last).queued

\* the reply to a getMore did not parse: the call that sent the getMore
\* returned the error, after documents had been returned
C24_Witness ==
    /\ Len(b_req.pulled) = 2
    /\ BadEnvelope(b_req.pulled[2])
    /\ Last(b_items) = SomeErr("value_access")
    /\ OkCount(b_items) >= 1
    /\ bc.cursor_id = SomeOpt(1)

\* C25, as stated: a reply whose cursor envelope carries a nonzero cursor id
\* and neither firstBatch nor nextBatch makes BatchCursor::next return a
\* decoding error.
C25_Original ==
    \A i \in 1..Len(b_req.pulled) :
        (/\ b_req.pulled[i].tag = "Ok"
         /\ b_req.pulled[i].doc.well_formed
         /\ b_req.pulled[i].doc.id # 0
         /\ ~b_req.pulled[i].doc.first_batch.some
         /\ ~b_req.pulled[i].doc.next_batch.some)
            => Last(b_items).tag = "Err"

\* C27: TailingCursor::next never returns None: every item is Ok or an
\* error, and an error of the inner cursor is returned only with the
\* retries used up.  When the inner cursor's next() gives None the call does not
\* return: retry_count goes up by one, whatever max_retries is, and the
\* inner cursor is discarded for a new one.
C27_NeverNone ==
    /\ \A i \in 1..Len(t_items) : t_items[i].tag \in {"Ok", "Err"}
    /\ t_log.last.res = "None" => ~t_log.last.returned
    /\ (t_log.last.res = "Err" /\ t_log.last.returned)
          => t_log.last.retry_before >= tc.max_retries
    /\ (t_pc = "loop" /\ t_log.last.res = "None")
          => /\ tc.retry_count = t_log.last.retry_before + 1
             /\ tc.cursor = 0

\* the inner cursor ended without an error when the retries were used up
\* already: the call goes on, retry_count above max_retries
C27_Witness ==
    /\ t_pc = "loop"
    /\ t_log.last.res = "None"
    /\ t_log.last.retry_before >= 1
    /\ t_log.last.retry_before >= tc.max_retries
    /\ tc.retry_count > tc.max_retries

\* C28, as stated: BatchCursor::next returns Err only for a batch envelope
\* that does not parse; a call in which the inner cursor yielded an Err
\* item, or in which the getMore command gave no cursor, ends with None.
C28_Original ==
    /\ (b_items # <<>> /\ Last(b_items).tag = "Err")
          => /\ b_req.pulled # <<>>
             /\ BadEnvelope(Last(b_req.pulled))
    /\ \A i \in 1..Len(b_req.pulled) :
          b_req.pulled[i].tag = "Err" => Last(b_items) = None
    /\ (b_req.last # <<>> /\ Last(b_req.last).kind = "getMore")
          => Last(b_items) = None

\* C28, amended: BatchCursor::next returns Err only for a batch envelope
\* that does not parse.  An Err item of the inner cursor is not passed on:
\* when it came from the last pull of the call the call ends with None, and
\* when it came from the pull of step (2) and a cursor id is on file the
\* call goes on to the getMore of step (3), whose reply decides the result.
\* A getMore command that gave no cursor ends the call with None.
C28_ErrOnlyParse ==
    /\ (b_items # <<>> /\ Last(b_items).tag = "Err")
          => /\ b_req.pulled # <<>>
             /\ BadEnvelope(Last(b_req.pulled))
             /\ Last(b_items) = SomeErr("value_access")
    /\ (b_req.pulled # <<>> /\ Last(b_req.pulled).tag = "Err")
          => Last(b_items) = None
    /\ (b_req.pulled # <<>> /\ b_req.pulled[1].tag = "Err")
          => IF b_req.last[1].id.some
             THEN Len(b_req.last) >= 2 /\ b_req.last[2].kind = "getMore"
             ELSE Len(b_req.last) = 1 /\ Last(b_items) = None
    /\ (b_req.last # <<>> /\ Last(b_req.last).kind = "getMore")
          => Last(b_items) = None

\* the pull of step (2) gave an Err item, and the call returned a document
\* of the batch its getMore fetched
C28_Witness ==
    /\ Len(b_req.pulled) = 2
    /\ b_req.pulled[1].tag = "Err"
    /\ b_req.last[2].kind = "getMore"
    /\ Last(b_items).tag = "Ok"

\* the requests of one kind among those of the last call of next()
RequestsOf(kind) == {i \in 1..Len(b_req.last) : b_req.last[i].kind = kind}

\* an item pulled from the inner cursor that is an envelope with a batch of
\* no documents
EmptyBatch(item) ==
    /\ item.tag = "Ok" /\ item.doc.well_formed
    /\ \/ item.doc.first_batch = SomeOpt(<<>>)
       \/ ~item.doc.first_batch.some /\ item.doc.next_batch = SomeOpt(<<>>)

\* C29: one call of BatchCursor::next sends at most one getMore and pulls
\* at most twice from inner cursors, the second time only after the
\* getMore; when the reply to the getMore holds an empty batch the call
\* returns None, whatever cursor id the reply carried.
C29_OneGetMore ==
    /\ Cardinality(RequestsOf("getMore")) <= 1
    /\ Cardinality(RequestsOf("pull")) <= 2
    /\ Len(b_req.pulled) <= 2
    /\ Len(b_req.pulled) = 2 =>
          /\ b_req.last[2].kind = "getMore"
          /\ EmptyBatch(b_req.pulled[2]) => Last(b_items) = None

\* the reply to the getMore was an empty batch with cursor id 1: the call
\* returned None with the id on file and documents left on the server
C29_Witness ==
    /\ Len(b_req.pulled) = 2
    /\ EmptyBatch(b_req.pulled[2])
    /\ b_req.pulled[2].doc.id = 1
    /\ bc.cursor_id = SomeOpt(1)
    /\ Last(b_items) = None
    /\ srv.sent < Len(coll)

\* C30, as stated: a TailingCursor that has surfaced an error of its inner
\* cursor (the retries used up) keeps the cursor and its retry_count, at or
\* above max_retries; and until a pull has succeeded no pull is retried:
\* while the last item returned is such an error, no call is on its way
\* to a new cursor after a pull that was not returned.
C30_Original ==
    /\ (tc.st = "open" /\ t_pc = "idle"
           /\ t_log.last.res = "Err" /\ t_log.last.returned)
          => /\ tc.cursor # 0
             /\ tc.retry_count = t_log.last.retry_before
             /\ tc.retry_count >= tc.max_retries
    /\ (t_items # <<>> /\ Last(t_items).tag = "Err"
           /\ Last(t_items).kind # "params")
          => t_pc # "loop"

====
